---- MODULE Spec2Model ----
(***************************************************************************)
(* Model of the workcell editor's save pipeline                            *)
(* (rmf_workcell_editor/src/workcell/save.rs), workcell activation         *)
(* (workcell/workcell.rs) and object placement entry points                *)
(* (interaction/select/place_object.rs).                                   *)
(*                                                                         *)
(* The ECS world is modelled by the components the code reads and writes:  *)
(* per entity a set of marker/data components, the Parent and Children     *)
(* hierarchy components and the SiteID component.                          *)
(***************************************************************************)
EXTENDS Integers, Sequences, FiniteSets, TLC

\* Number of Entity handles the world can allocate.
NumEntities == 3

Entities == 1..NumEntities

\* The components named by the queries of save.rs and workcell.rs.
Components ==
    { "FrameMarker", "JointProperties", "Moment", "VisualMeshMarker",
      "CollisionMeshMarker", "Pending", "Anchor", "NameInWorkcell", "Pose",
      "Mass", "AssetSource", "PrimitiveShape", "Scale", "NameOfWorkcell" }

VARIABLES
    live,       \* entities that exist in the World
    dead,       \* entity handles whose entity was despawned
    comps,      \* comps[e]: the components of e (besides Parent/Children/SiteID)
    parent,     \* the Parent component: DOMAIN parent = entities that have one
    children,   \* the Children component: children[e] is the ordered child list
    siteId,     \* the SiteID component: DOMAIN siteId = entities that have one
    result,     \* the value returned by the last generate_workcell call
    edits,      \* the number of edits made to spawned entities
    save_events,        \* Events<SaveWorkcell>: the queued save requests
    saved,              \* what the last run of save_workcell did
    change_events,      \* the ChangeCurrentWorkcell events not yet read
    changed,            \* what the last run of change_workcell did
    current_workspace,  \* the CurrentWorkspace resource
    requests,           \* the SelectorInput entities spawned for the workflows
    run_selector,       \* the RunSelector events sent
    last_call,          \* the placement entry point called last
    warned              \* whether that call logged the warning

world == <<live, dead, comps, parent, children, siteId>>

Range(s) == { s[i] : i \in DOMAIN s }

----------------------------------------------------------------------------
(* save.rs *)

\* AncestorIter::new(q_parents, entity).any(|p| p == root)
RECURSIVE parent_in_workcell(_, _, _)
parent_in_workcell(par, entity, root) ==
    IF entity \notin DOMAIN par THEN FALSE
    ELSE \/ par[entity] = root
         \/ parent_in_workcell(par, par[entity], root)

\* DescendantIter: a queue seeded with the root's children; the entity at the
\* front is yielded and its children are pushed at the back.
RECURSIVE DescendantIter(_, _)
DescendantIter(ch, vecdeque) ==
    IF vecdeque = <<>> THEN <<>>
    ELSE <<Head(vecdeque)>> \o DescendantIter(ch, Tail(vecdeque) \o ch[Head(vecdeque)])

iter_descendants(ch, e) == DescendantIter(ch, ch[e])

\* The q_used_entities filter of assign_site_ids.
UsedMarkers ==
    { "FrameMarker", "JointProperties", "Moment", "VisualMeshMarker",
      "CollisionMeshMarker" }

\* The filter with `Without<Pending>` left out.
q_used_entities_with_pending(cs, e) == cs[e] \cap UsedMarkers # {}

q_used_entities(cs, e) ==
    /\ cs[e] \cap UsedMarkers # {}
    /\ "Pending" \notin cs[e]

\* new_entities of assign_site_ids: the workcell, then the used descendants.
new_entities(cs, ch, workcell) ==
    <<workcell>> \o SelectSeq(iter_descendants(ch, workcell),
                              LAMBDA e : q_used_entities(cs, e))

\* The SiteID components after assign_site_ids(world, workcell): each entity
\* of new_entities gets SiteID(idx), idx counted from 0 (a later insert
\* overwrites an earlier one); every other SiteID is left as it is.
assign_site_ids(sid, cs, ch, workcell) ==
    LET ne == new_entities(cs, ch, workcell)
        last(e) == CHOOSE i \in DOMAIN ne :
                      /\ ne[i] = e
                      /\ \A j \in DOMAIN ne : ne[j] = e => j <= i
    IN  [e \in DOMAIN sid \cup Range(ne) |->
            IF e \in Range(ne) THEN last(e) - 1 ELSE sid[e]]

\* The row filters of the four export queries of generate_workcell; every one
\* also asks for &SiteID and &Parent and excludes Pending entities.
Exported(cs, par, sid, e, required) ==
    /\ required \subseteq cs[e]
    /\ e \in DOMAIN sid
    /\ e \in DOMAIN par
    /\ "Pending" \notin cs[e]

q_anchors(cs, par, sid, e) == Exported(cs, par, sid, e, {"Anchor", "NameInWorkcell"})

q_inertials(cs, par, sid, e) == Exported(cs, par, sid, e, {"Pose", "Mass", "Moment"})

q_models(cs, par, sid, e) ==
    /\ Exported(cs, par, sid, e, {"NameInWorkcell", "Pose"})
    /\ cs[e] \cap {"VisualMeshMarker", "CollisionMeshMarker"} # {}

q_joints(cs, par, sid, e) == Exported(cs, par, sid, e, {"JointProperties", "NameInWorkcell"})

\* q_site_id.get(parent.get()) is Ok
ParentFound(par, sid, e) == par[e] \in DOMAIN sid

\* The geometry of a model: Mesh (with scale: Option) when an AssetSource is
\* there, else Primitive when a PrimitiveShape is there, else none.
NoGeometry == [kind |-> "None", scale |-> FALSE]

\* The two branches tested in the other order.
Geometry_primitive_first(cs, e) ==
    IF "PrimitiveShape" \in cs[e]
    THEN [kind |-> "Primitive", scale |-> FALSE]
    ELSE IF "AssetSource" \in cs[e]
         THEN [kind |-> "Mesh", scale |-> "Scale" \in cs[e]]
         ELSE NoGeometry

Geometry(cs, e) ==
    IF "AssetSource" \in cs[e]
    THEN [kind |-> "Mesh", scale |-> "Scale" \in cs[e]]
    ELSE IF "PrimitiveShape" \in cs[e]
         THEN [kind |-> "Primitive", scale |-> FALSE]
         ELSE NoGeometry

Passes == {"models", "anchors", "inertials", "joints"}

\* The rows a pass iterates that are not skipped by `!parent_in_workcell`.
Reached(cs, par, sid, root, pass) ==
    { e \in Entities :
        /\ CASE pass = "models"    -> q_models(cs, par, sid, e)
             [] pass = "anchors"   -> q_anchors(cs, par, sid, e)
             [] pass = "inertials" -> q_inertials(cs, par, sid, e)
             [] pass = "joints"    -> q_joints(cs, par, sid, e)
        /\ parent_in_workcell(par, e, root) }

\* The rows a pass inserts: those past every `continue`. Every pass skips a
\* row whose parent has no SiteID; the models pass also skips a row without
\* a geometry.
Kept(cs, par, sid, root, pass) ==
    { e \in Reached(cs, par, sid, root, pass) :
        /\ ParentFound(par, sid, e)
        /\ pass = "models" => Geometry(cs, e) # NoGeometry }

\* push_model goes to visuals when the entity has a VisualMeshMarker, else to
\* collisions when it has a CollisionMeshMarker.
VisualsKept(cs, par, sid, root) ==
    { e \in Kept(cs, par, sid, root, "models") : "VisualMeshMarker" \in cs[e] }

CollisionsKept(cs, par, sid, root) ==
    { e \in Kept(cs, par, sid, root, "models") :
        /\ "VisualMeshMarker" \notin cs[e]
        /\ "CollisionMeshMarker" \in cs[e] }

\* The value inserted for e: Parented { parent, bundle }. The bundle is built
\* from e's components and is recorded as e itself; a model's bundle carries
\* its geometry.
\* The entity's own SiteID written where its parent's belongs.
Parented_own_id(cs, par, sid, e, pass) ==
    IF pass = "models"
    THEN [parent |-> sid[e], bundle |-> e, geometry |-> Geometry(cs, e)]
    ELSE [parent |-> sid[e], bundle |-> e]

Parented(cs, par, sid, e, pass) ==
    IF pass = "models"
    THEN [parent |-> sid[par[e]], bundle |-> e, geometry |-> Geometry(cs, e)]
    ELSE [parent |-> sid[par[e]], bundle |-> e]

\* The BTreeMaps a pass can build from the entities it keeps: the key is the
\* entity's SiteID, and when several kept entities carry the same SiteID the
\* one the query yields last stays. The query's iteration order is the
\* engine's, so any of them may be the one.
BTreeMaps(cs, par, sid, kept, pass) ==
    LET keys == { sid[e] : e \in kept }
    IN  { [k \in keys |-> Parented(cs, par, sid, g[k], pass)] :
            g \in { h \in [keys -> kept] : \A k \in keys : sid[h[k]] = k } }

\* The error! lines of the passes, each with the entity it was written for.
Errors(cs, par, sid, root) ==
    { [msg |-> "Parent not found", pass |-> l[1], of |-> l[2]] :
        l \in { x \in Passes \X Entities :
                  /\ x[2] \in Reached(cs, par, sid, root, x[1])
                  /\ ~ParentFound(par, sid, x[2]) } }
    \cup
    { [msg |-> "DEV Error, visual without primitive or mesh",
       pass |-> "models", of |-> e] :
        e \in { x \in Reached(cs, par, sid, root, "models") :
                  /\ ParentFound(par, sid, x)
                  /\ Geometry(cs, x) = NoGeometry } }

\* The Workcell documents generate_workcell can return for a root that has
\* a NameOfWorkcell, with the lines it logs on the way.
Workcells(cs, par, sid, root) ==
    { [status |-> "Ok", root |-> root,
       doc |-> [visuals |-> v, collisions |-> c, frames |-> f,
                inertias |-> i, joints |-> j],
       log |-> Errors(cs, par, sid, root)] :
        v \in BTreeMaps(cs, par, sid, VisualsKept(cs, par, sid, root), "models"),
        c \in BTreeMaps(cs, par, sid, CollisionsKept(cs, par, sid, root), "models"),
        f \in BTreeMaps(cs, par, sid, Kept(cs, par, sid, root, "anchors"), "anchors"),
        i \in BTreeMaps(cs, par, sid, Kept(cs, par, sid, root, "inertials"), "inertials"),
        j \in BTreeMaps(cs, par, sid, Kept(cs, par, sid, root, "joints"), "joints") }

\* Err(WorkcellGenerationError::InvalidWorkcellEntity(root)): no document.
InvalidWorkcellEntity(root) ==
    [status |-> "Err", root |-> root,
     error |-> [kind |-> "InvalidWorkcellEntity", entity |-> root]]

\* world.entity_mut(workcell) in assign_site_ids panics when the entity does
\* not exist: nothing is returned.
Panicked(root) == [status |-> "Panic", root |-> root]

NoResult == [status |-> "None"]

\* The document built without looking the root's NameOfWorkcell up.
generate_workcell_unchecked(cs, par, sid, root) == Workcells(cs, par, sid, root)

\* What generate_workcell returns once the SiteIDs are assigned (sid).
generate_workcell(cs, par, sid, root) ==
    IF "NameOfWorkcell" \in cs[root]
    THEN Workcells(cs, par, sid, root)
    ELSE {InvalidWorkcellEntity(root)}

\* generate_workcell(world, root)
GenerateWorkcell(root) ==
    /\ IF root \in live
       THEN LET sid == assign_site_ids(siteId, comps, children, root)
            IN  /\ siteId' = sid
                /\ result' \in generate_workcell(comps, parent, sid, root)
       ELSE /\ root \in dead
            /\ result' = Panicked(root)
            /\ UNCHANGED siteId
    /\ UNCHANGED <<live, dead, comps, parent, children, edits>>

----------------------------------------------------------------------------
(* The World the editor builds and edits around the save system. *)

\* The component sets entities are spawned with: a workcell root, a frame,
\* a visual mesh, a joint and an inertia.
Bundles ==
    { {"NameOfWorkcell"},
      {"FrameMarker", "Anchor", "NameInWorkcell"},
      {"VisualMeshMarker", "NameInWorkcell", "Pose", "AssetSource", "Scale"},
      {"JointProperties", "NameInWorkcell"},
      {"Moment", "Mass", "Pose"} }

\* Models by the geometry components they carry: a scaled mesh, an entity
\* with both markers and both geometry sources, a primitive collision, and
\* a visual with no geometry at all.
ModelBundles ==
    { {"NameOfWorkcell"},
      {"VisualMeshMarker", "NameInWorkcell", "Pose", "AssetSource", "Scale"},
      {"VisualMeshMarker", "CollisionMeshMarker", "NameInWorkcell", "Pose",
       "AssetSource", "PrimitiveShape"},
      {"CollisionMeshMarker", "NameInWorkcell", "Pose", "PrimitiveShape"},
      {"VisualMeshMarker", "NameInWorkcell", "Pose"} }

\* Entities by what assign_site_ids looks at: the markers and Pending.
MarkerBundles ==
    { {"NameOfWorkcell"},
      {"FrameMarker"},
      {"FrameMarker", "Pending"},
      {"Moment"},
      {"CollisionMeshMarker"} }

\* A workcell root and a frame.
SaveBundles ==
    { {"NameOfWorkcell"},
      {"FrameMarker", "Anchor", "NameInWorkcell"} }

\* Entities that are numbered but not exported, or not numbered at all,
\* next to a workcell root and a frame.
EditBundles ==
    { {"NameOfWorkcell"},
      {},
      {"FrameMarker", "Anchor", "NameInWorkcell"},
      {"VisualMeshMarker", "NameInWorkcell", "Pose"},
      {"Moment"} }

\* The components inserted and removed after an entity was spawned.
EditedComponents == {"Pending", "FrameMarker"}

\* How many hierarchy and component edits a run makes.
MaxEdits == 2

Restrict(f, S) == [x \in DOMAIN f \cap S |-> f[x]]

Without(seq, e) == SelectSeq(seq, LAMBDA x : x # e)

Descendants(ch, e) == Range(iter_descendants(ch, e))

\* commands.spawn(bundle), with set_parent(p) unless p is NoParent.
NoParent == 0

Spawn(bundle, p) ==
    LET e == Cardinality(live \cup dead) + 1
    IN  /\ e \in Entities
        /\ p \in live \cup {NoParent}
        /\ live' = live \cup {e}
        /\ comps' = [comps EXCEPT ![e] = bundle]
        /\ IF p = NoParent
           THEN UNCHANGED <<parent, children>>
           ELSE /\ parent' = [x \in DOMAIN parent \cup {e} |->
                                 IF x = e THEN p ELSE parent[x]]
                /\ children' = [children EXCEPT ![p] = Append(@, e)]
        /\ result' = NoResult
        /\ UNCHANGED <<dead, siteId, edits>>

\* set_parent(p) on an existing entity: it leaves the child list of its old
\* parent and is pushed at the end of p's.
SetParent(e, p) ==
    /\ edits < MaxEdits
    /\ edits' = edits + 1
    /\ e \in live /\ p \in live /\ e # p
    /\ p \notin Descendants(children, e)
    /\ e \in DOMAIN parent => parent[e] # p
    /\ parent' = [x \in DOMAIN parent \cup {e} |-> IF x = e THEN p ELSE parent[x]]
    /\ children' = [x \in Entities |->
                       IF x = p THEN Append(children[x], e)
                       ELSE Without(children[x], e)]
    /\ result' = NoResult
    /\ UNCHANGED <<live, dead, comps, siteId>>

InsertComponent(e, c) ==
    /\ edits < MaxEdits
    /\ edits' = edits + 1
    /\ e \in live /\ c \notin comps[e]
    /\ comps' = [comps EXCEPT ![e] = @ \cup {c}]
    /\ result' = NoResult
    /\ UNCHANGED <<live, dead, parent, children, siteId>>

RemoveComponent(e, c) ==
    /\ edits < MaxEdits
    /\ edits' = edits + 1
    /\ e \in live /\ c \in comps[e]
    /\ comps' = [comps EXCEPT ![e] = @ \ {c}]
    /\ result' = NoResult
    /\ UNCHANGED <<live, dead, parent, children, siteId>>

\* despawn_recursive: the entity and its descendants leave the World with all
\* their components, and the entity leaves its parent's child list.
DespawnRecursive(e) ==
    LET gone == {e} \cup Descendants(children, e)
    IN  /\ e \in live
        /\ live' = live \ gone
        /\ dead' = dead \cup gone
        /\ comps' = [x \in Entities |-> IF x \in gone THEN {} ELSE comps[x]]
        /\ parent' = Restrict(parent, Entities \ gone)
        /\ children' = [x \in Entities |->
                           IF x \in gone THEN <<>> ELSE Without(children[x], e)]
        /\ siteId' = Restrict(siteId, Entities \ gone)
        /\ result' = NoResult
        /\ UNCHANGED edits

----------------------------------------------------------------------------
(* save.rs: save_workcell *)

\* The destinations and formats of a SaveWorkcell event.
Paths == {"workcell.json", "package"}

Formats == {"Default", "Urdf"}

\* How many SaveWorkcell events are queued between two runs of save_workcell.
MaxSaveEvents == 2

\* What the file system and the package exporter do to a request: nothing
\* wrong, or the named call returns Err.
IoOutcomes == {"ok", "File::create", "to_writer", "export_package"}

\* The body of the loop past generate_workcell: the line it logs for the
\* request and the document that reached its destination, if one did.
Handled(ev, io, r) ==
    IF r.status = "Err"
    THEN [event |-> ev, log |-> "Unable to compile workcell", written |-> <<>>]
    ELSE IF ev.format = "Default"
         THEN IF io = "File::create"
              THEN [event |-> ev, log |-> "Unable to save file", written |-> <<>>]
              ELSE IF io = "to_writer"
                   THEN [event |-> ev, log |-> "Save failed", written |-> <<>>]
                   ELSE [event |-> ev, log |-> "Save successful", written |-> <<r.doc>>]
         ELSE IF io = "export_package"
              THEN [event |-> ev, log |-> "Failed to export package", written |-> <<>>]
              ELSE [event |-> ev, log |-> "Successfully exported package",
                    written |-> <<r.doc>>]

\* The loop over the drained events: the SiteIDs it leaves, the requests it
\* handled, and whether it ended in the panic of world.entity_mut on a root
\* that does not exist.
RECURSIVE save_loop(_, _, _, _)
save_loop(events, io, sid, handled) ==
    IF events = <<>>
    THEN {[siteId |-> sid, handled |-> handled, panicked |-> FALSE]}
    ELSE IF Head(events).root \notin live
         THEN {[siteId |-> sid, handled |-> handled, panicked |-> TRUE]}
         ELSE LET ev == Head(events)
                  sid1 == assign_site_ids(sid, comps, children, ev.root)
              IN  UNION { save_loop(Tail(events), Tail(io), sid1,
                                    Append(handled, Handled(ev, Head(io), r))) :
                            r \in generate_workcell(comps, parent, sid1, ev.root) }

NoRun == [batch |-> <<>>, io |-> <<>>, handled |-> <<>>, panicked |-> FALSE]

\* save_workcell(world)
SaveWorkcellSystem ==
    /\ \E io \in [1..Len(save_events) -> IoOutcomes] :
         \E run \in save_loop(save_events, io, siteId, <<>>) :
            /\ siteId' = run.siteId
            /\ saved' = [batch |-> save_events, io |-> io,
                         handled |-> run.handled, panicked |-> run.panicked]
    /\ save_events' = <<>>
    /\ result' = NoResult
    /\ UNCHANGED <<live, dead, comps, parent, children, edits>>

\* A SaveWorkcell event is sent for an entity of the World.
SendSaveWorkcell(root, to_file, format) ==
    /\ Len(save_events) < MaxSaveEvents
    /\ root \in live
    /\ save_events' = Append(save_events,
                             [root |-> root, to_file |-> to_file, format |-> format])
    /\ saved' = NoRun

----------------------------------------------------------------------------
(* workcell.rs: change_workcell *)

\* Option<Entity>::None
NoEntity == 0

\* How many ChangeCurrentWorkcell events are sent between two updates.
MaxChangeEvents == 2

\* open_workcells.get(root) is Ok
OpenWorkcell(cs, root) == "NameOfWorkcell" \in cs[root]

\* The first event of the batch taken instead of the last.
change_workcell_first(ws, events, cs) ==
    IF events = <<>>
    THEN [workspace |-> ws, errors |-> {}]
    ELSE LET cmd == Head(events)
         IN  IF ~OpenWorkcell(cs, cmd.root)
             THEN [workspace |-> ws, errors |-> {cmd.root}]
             ELSE [workspace |-> [root |-> cmd.root, display |-> TRUE], errors |-> {}]

\* change_workcell: the CurrentWorkspace it leaves and the entities it logs
\* "Requested workspace change to an entity that is not an open workcell" for.
change_workcell(ws, events, cs) ==
    IF events = <<>>
    THEN [workspace |-> ws, errors |-> {}]
    ELSE LET cmd == events[Len(events)]
         IN  IF ~OpenWorkcell(cs, cmd.root)
             THEN [workspace |-> ws, errors |-> {cmd.root}]
             ELSE [workspace |-> [root |-> cmd.root, display |-> TRUE], errors |-> {}]

NoChange == [batch |-> <<>>, errors |-> {}]

\* One update: the system reads every event sent since its last run.
ChangeWorkcellSystem ==
    LET out == change_workcell(current_workspace, change_events, comps)
    IN  /\ current_workspace' = out.workspace
        /\ changed' = [batch |-> change_events, errors |-> out.errors]
        /\ change_events' = <<>>

SendChangeCurrentWorkcell(root) ==
    /\ Len(change_events) < MaxChangeEvents
    /\ root \in live \cup dead
    /\ change_events' = Append(change_events, [root |-> root])
    /\ changed' = NoChange
    /\ UNCHANGED current_workspace

----------------------------------------------------------------------------
(* place_object.rs: ObjectPlacement and ObjectPlaceCommand.  The spawn and  *)
(* the event send are queued as commands; they are taken here at the point *)
(* where the command queue is applied.                                     *)

\* How many placement requests are in flight.
MaxRequests == 1

PlaceableObjects == {"Model", "Anchor"}

\* The request spawned and the event sent for it; the event's input is the
\* spawned entity, named by its place among the requests.
Placed(input, selector) ==
    /\ Len(requests) < MaxRequests
    /\ requests' = Append(requests, input)
    /\ run_selector' = Append(run_selector,
                              [selector |-> selector, input |-> Len(requests) + 1])
    /\ warned' = FALSE

\* place_object_3d with the `let Some(workspace) = ... else` guard left out.
place_object_3d_unguarded(object, selection) ==
    Placed([input |-> "PlaceObject3d", object |-> object, parent |-> selection,
            workspace |-> current_workspace.root], "place_object_3d")

\* ObjectPlacement::place_object_3d
place_object_3d(object, selection) ==
    IF current_workspace.root = NoEntity
    THEN /\ warned' = TRUE
         /\ UNCHANGED <<requests, run_selector>>
    ELSE Placed([input |-> "PlaceObject3d", object |-> object, parent |-> selection,
                 workspace |-> current_workspace.root], "place_object_3d")

\* ObjectPlacement::replace_parent_3d
replace_parent_3d(object, workspace) ==
    Placed([input |-> "ReplaceParent3d", object |-> object, workspace |-> workspace],
           "replace_parent_3d")

PlaceObject3d(object, selection) ==
    /\ place_object_3d(object, selection)
    /\ last_call' = "place_object_3d"
    /\ UNCHANGED current_workspace

ReplaceParent3d(object, workspace) ==
    /\ replace_parent_3d(object, workspace)
    /\ last_call' = "replace_parent_3d"
    /\ UNCHANGED current_workspace

\* ObjectPlaceCommand::apply, queued by Commands::place_model_3d
ObjectPlaceCommand(selection) ==
    /\ place_object_3d("Model", selection)
    /\ last_call' = "ObjectPlaceCommand"
    /\ UNCHANGED current_workspace

\* The workflow the event was sent to takes the event and its input entity.
RunSelectorTaken ==
    /\ run_selector # <<>>
    /\ run_selector' = <<>>
    /\ requests' = <<>>
    /\ last_call' = "none"
    /\ warned' = FALSE
    /\ UNCHANGED current_workspace

\* The CurrentWorkspace as the rest of the editor leaves it: a workspace is
\* opened or closed.
SetCurrentWorkspace(root) ==
    /\ current_workspace.root # root
    /\ current_workspace' = [root |-> root, display |-> root # NoEntity]
    /\ last_call' = "none"
    /\ warned' = FALSE
    /\ UNCHANGED <<requests, run_selector>>

----------------------------------------------------------------------------

worldVars == <<live, dead, comps, parent, children, siteId, result, edits>>

saveVars == <<save_events, saved>>

changeVars == <<change_events, changed>>

placeVars == <<requests, run_selector, last_call, warned>>

vars == <<worldVars, saveVars, changeVars, current_workspace, placeVars>>

Init ==
    /\ live = {}
    /\ dead = {}
    /\ comps = [e \in Entities |-> {}]
    /\ parent = <<>>
    /\ children = [e \in Entities |-> <<>>]
    /\ siteId = <<>>
    /\ result = NoResult
    /\ edits = 0
    /\ save_events = <<>>
    /\ saved = NoRun
    /\ change_events = <<>>
    /\ changed = NoChange
    /\ current_workspace = [root |-> NoEntity, display |-> FALSE]
    /\ requests = <<>>
    /\ run_selector = <<>>
    /\ last_call = "none"
    /\ warned = FALSE

notWorld == <<saveVars, changeVars, current_workspace, placeVars>>

\* Workcells are built, saved and torn down.
Next ==
    \/ \E b \in Bundles, p \in Entities \cup {NoParent} :
          Spawn(b, p) /\ UNCHANGED notWorld
    \/ \E e \in Entities :
          DespawnRecursive(e) /\ UNCHANGED notWorld
    \/ \E root \in Entities :
          GenerateWorkcell(root) /\ UNCHANGED notWorld

Spec == Init /\ [][Next]_vars

\* The same with the models' geometry varied.
NextModels ==
    \/ \E b \in ModelBundles, p \in Entities \cup {NoParent} :
          Spawn(b, p) /\ UNCHANGED notWorld
    \/ \E e \in Entities :
          DespawnRecursive(e) /\ UNCHANGED notWorld
    \/ \E root \in Entities :
          GenerateWorkcell(root) /\ UNCHANGED notWorld

SpecModels == Init /\ [][NextModels]_vars

\* The same with the markers varied.
NextIds ==
    \/ \E b \in MarkerBundles, p \in Entities \cup {NoParent} :
          Spawn(b, p) /\ UNCHANGED notWorld
    \/ \E e \in Entities :
          DespawnRecursive(e) /\ UNCHANGED notWorld
    \/ \E root \in Entities :
          GenerateWorkcell(root) /\ UNCHANGED notWorld

SpecIds == Init /\ [][NextIds]_vars

\* Saves interleaved with edits of the hierarchy and of the components.
NextEdit ==
    \/ \E b \in EditBundles, p \in Entities \cup {NoParent} :
          Spawn(b, p) /\ UNCHANGED notWorld
    \/ \E e \in Entities, p \in Entities :
          SetParent(e, p) /\ UNCHANGED notWorld
    \/ \E e \in Entities, c \in EditedComponents :
          InsertComponent(e, c) /\ UNCHANGED notWorld
    \/ \E e \in Entities, c \in EditedComponents :
          RemoveComponent(e, c) /\ UNCHANGED notWorld
    \/ \E e \in Entities :
          DespawnRecursive(e) /\ UNCHANGED notWorld
    \/ \E root \in Entities :
          GenerateWorkcell(root) /\ UNCHANGED notWorld

SpecEdit == Init /\ [][NextEdit]_vars

notSave == <<changeVars, current_workspace, placeVars>>

\* The save driver: requests are queued while workcells come and go, and the
\* system drains them. A panic ends the program.
NextSave ==
    \/ \E b \in SaveBundles, p \in Entities \cup {NoParent} :
          /\ ~saved.panicked
          /\ Spawn(b, p)
          /\ saved' = NoRun
          /\ UNCHANGED <<save_events, notSave>>
    \/ \E e \in Entities :
          /\ ~saved.panicked
          /\ DespawnRecursive(e)
          /\ saved' = NoRun
          /\ UNCHANGED <<save_events, notSave>>
    \/ \E root \in Entities, to_file \in Paths, format \in Formats :
          /\ ~saved.panicked
          /\ SendSaveWorkcell(root, to_file, format)
          /\ UNCHANGED <<worldVars, notSave>>
    \/ /\ ~saved.panicked
       /\ SaveWorkcellSystem
       /\ UNCHANGED notSave

SpecSave == Init /\ [][NextSave]_vars

notChange == <<saveVars, placeVars>>

\* Workcells are opened and closed and the current one is changed.
NextChange ==
    \/ \E b \in SaveBundles :
          /\ Spawn(b, NoParent)
          /\ changed' = NoChange
          /\ UNCHANGED <<change_events, current_workspace, notChange>>
    \/ \E e \in Entities :
          /\ DespawnRecursive(e)
          /\ changed' = NoChange
          /\ UNCHANGED <<change_events, current_workspace, notChange>>
    \/ \E root \in Entities :
          SendChangeCurrentWorkcell(root) /\ UNCHANGED <<worldVars, notChange>>
    \/ ChangeWorkcellSystem /\ UNCHANGED <<worldVars, notChange>>

SpecChange == Init /\ [][NextChange]_vars

notPlace == <<worldVars, saveVars, changeVars>>

\* Objects are placed and reparented while workspaces are opened and closed.
NextPlace ==
    \/ \E root \in Entities \cup {NoEntity} :
          SetCurrentWorkspace(root) /\ UNCHANGED notPlace
    \/ \E object \in PlaceableObjects, selection \in Entities \cup {NoEntity} :
          PlaceObject3d(object, selection) /\ UNCHANGED notPlace
    \/ \E object \in Entities, workspace \in Entities :
          ReplaceParent3d(object, workspace) /\ UNCHANGED notPlace
    \/ \E selection \in Entities \cup {NoEntity} :
          ObjectPlaceCommand(selection) /\ UNCHANGED notPlace
    \/ RunSelectorTaken /\ UNCHANGED notPlace

SpecPlace == Init /\ [][NextPlace]_vars

----------------------------------------------------------------------------
(* Properties of generate_workcell and assign_site_ids.  A result other    *)
(* than NoResult is the value of the call that led to the current state,   *)
(* so the World of that state is the World the call left.                  *)

Returned == result.status \in {"Ok", "Err"}

MapNames == {"visuals", "collisions", "frames", "inertias", "joints"}

\* The entries of all five maps of the returned document, each with the map
\* it is in and its key.
Entries ==
    UNION { { [map |-> m, id |-> k, entry |-> result.doc[m][k]] :
                k \in DOMAIN result.doc[m] } : m \in MapNames }

\* The descendants of root by the Parent components.
DescendantsOf(root) == { e \in live : parent_in_workcell(parent, e, root) }

\* The descendants of root that assign_site_ids is to number.
Qualifying(root) ==
    { e \in DescendantsOf(root) :
        /\ \E m \in {"FrameMarker", "JointProperties", "Moment",
                     "VisualMeshMarker", "CollisionMeshMarker"} : m \in comps[e]
        /\ "Pending" \notin comps[e] }

\* C1: generate_workcell on a root without NameOfWorkcell returns
\* Err(InvalidWorkcellEntity(root)) and no document, whatever exportable
\* descendants the root has.
C1_InvalidRootIsErr ==
    (Returned /\ "NameOfWorkcell" \notin comps[result.root]) =>
        /\ result.status = "Err"
        /\ result.error = [kind |-> "InvalidWorkcellEntity", entity |-> result.root]
        /\ "doc" \notin DOMAIN result

\* A frame root with a frame child was given to generate_workcell.
C1_Witness ==
    /\ result.status = "Err"
    /\ "NameOfWorkcell" \notin comps[result.root]
    /\ \E e \in Qualifying(result.root) : {"Anchor", "NameInWorkcell"} \subseteq comps[e]

FrameBundle == {"FrameMarker", "Anchor", "NameInWorkcell"}

VisualBundle == {"VisualMeshMarker", "NameInWorkcell", "Pose", "AssetSource", "Scale"}

\* The hierarchy under root is one frame F with one visual mesh V under it.
FrameThenVisual(root, F, V) ==
    /\ children[root] = <<F>> /\ children[F] = <<V>> /\ children[V] = <<>>
    /\ comps[F] = FrameBundle /\ comps[V] = VisualBundle

\* C6: every entry id -> (parent, payload) of a returned document is keyed by
\* the SiteID of the entity e it was built from and its parent is the SiteID
\* of e's immediate parent, 0 when that parent is the root; for a root with
\* one frame child F and one visual grandchild V under F, frames is exactly
\* {F's id -> parent 0} and visuals is exactly {V's id -> parent F's id}.
C6_ParentIds ==
    result.status = "Ok" =>
        /\ \A x \in Entries :
             LET e == x.entry.bundle
             IN  /\ e \in DOMAIN siteId /\ siteId[e] = x.id
                 /\ e \in DOMAIN parent
                 /\ parent[e] \in DOMAIN siteId
                 /\ x.entry.parent = siteId[parent[e]]
                 /\ parent[e] = result.root => x.entry.parent = 0
        /\ \A F, V \in live :
             FrameThenVisual(result.root, F, V) =>
                /\ DOMAIN result.doc.frames = {siteId[F]}
                /\ result.doc.frames[siteId[F]].parent = 0
                /\ result.doc.frames[siteId[F]].bundle = F
                /\ DOMAIN result.doc.visuals = {siteId[V]}
                /\ result.doc.visuals[siteId[V]].parent = siteId[F]
                /\ result.doc.visuals[siteId[V]].bundle = V
                /\ siteId[F] # siteId[V]

\* The document of a root with one frame child and one visual grandchild.
C6_Witness ==
    /\ result.status = "Ok"
    /\ \E F, V \in live : FrameThenVisual(result.root, F, V)
    /\ Cardinality(Entries) = 2

\* An entity the visual/collision pass looks at under the returned root: it
\* has one of the two markers, a name, a pose, a SiteID and a parent with a
\* SiteID, and is not Pending.
ModelUnderRoot(e) ==
    /\ e \in DescendantsOf(result.root)
    /\ "VisualMeshMarker" \in comps[e] \/ "CollisionMeshMarker" \in comps[e]
    /\ {"NameInWorkcell", "Pose"} \subseteq comps[e]
    /\ "Pending" \notin comps[e]
    /\ e \in DOMAIN siteId
    /\ parent[e] \in DOMAIN siteId

DevErrorFor(e) ==
    [msg |-> "DEV Error, visual without primitive or mesh", pass |-> "models", of |-> e]

\* C7: in the visuals and collisions of a returned document the geometry of
\* an entity is Mesh, with its scale when it has one, whenever it has an
\* AssetSource, even next to a PrimitiveShape, and Primitive when it has a
\* PrimitiveShape only; an entity with neither is in neither map and a
\* developer error is logged for it.
C7_GeometryChoice ==
    result.status = "Ok" =>
        /\ \A x \in Entries :
             x.map \in {"visuals", "collisions"} =>
                LET e == x.entry.bundle
                IN  /\ "AssetSource" \in comps[e] =>
                           x.entry.geometry =
                               [kind |-> "Mesh", scale |-> "Scale" \in comps[e]]
                    /\ ("AssetSource" \notin comps[e] /\ "PrimitiveShape" \in comps[e]) =>
                           x.entry.geometry.kind = "Primitive"
        /\ \A e \in live :
             (ModelUnderRoot(e) /\ comps[e] \cap {"AssetSource", "PrimitiveShape"} = {}) =>
                /\ \A x \in Entries :
                     x.map \in {"visuals", "collisions"} => x.entry.bundle # e
                /\ DevErrorFor(e) \in result.log

\* A document with a Mesh built for an entity that has both an AssetSource
\* and a PrimitiveShape, next to a model that was skipped for having neither.
C7_Witness ==
    /\ result.status = "Ok"
    /\ \E x \in Entries :
         /\ x.map = "visuals"
         /\ {"AssetSource", "PrimitiveShape"} \subseteq comps[x.entry.bundle]
         /\ x.entry.geometry.kind = "Mesh"
    /\ \E e \in live :
         /\ ModelUnderRoot(e)
         /\ comps[e] \cap {"AssetSource", "PrimitiveShape"} = {}
         /\ DevErrorFor(e) \in result.log

AssignedThisSave == {result.root} \cup Qualifying(result.root)

\* C3: an entity is in a map of a returned document only if it is a
\* descendant of the root and its immediate parent was given a SiteID by
\* this save; an entity whose parent was not is in no map, and an error is
\* logged for it.
C3_OnlyUnderNumberedParents ==
    result.status = "Ok" =>
        /\ \A x \in Entries :
             /\ x.entry.bundle \in DescendantsOf(result.root)
             /\ parent[x.entry.bundle] \in AssignedThisSave
        /\ \A pass \in Passes :
             \A e \in Reached(comps, parent, siteId, result.root, pass) :
                parent[e] \notin AssignedThisSave =>
                    [msg |-> "Parent not found", pass |-> pass, of |-> e] \in result.log

\* C9: a generate_workcell that returns InvalidWorkcellEntity leaves the
\* World as it was: no SiteID is inserted or overwritten.
C9_ErrLeavesWorld == [][result'.status = "Err" => world' = world]_vars

\* C10: in a returned document every parent ID is 0 or a key of one of the
\* five maps.
C10_ClosedUnderParents ==
    result.status = "Ok" =>
        \A x \in Entries :
            \/ x.entry.parent = 0
            \/ \E y \in Entries : y.id = x.entry.parent

----------------------------------------------------------------------------
(* Properties of save_workcell.  A run other than NoRun is the run that    *)
(* led to the current state.                                               *)

FailureLines ==
    { "Unable to compile workcell", "Unable to save file", "Save failed",
      "Failed to export package" }

\* C5: one run of save_workcell handles every request of the batch once and
\* in order, whatever its root; a request that fails is logged and the later
\* ones are still generated and written; the driver does not crash and the
\* queue is empty afterwards.
C5_BatchFullyHandled ==
    /\ ~saved.panicked
    /\ Len(saved.handled) = Len(saved.batch)
    /\ \A i \in DOMAIN saved.batch :
         /\ saved.handled[i].event = saved.batch[i]
         /\ \/ saved.handled[i].written # <<>>
            \/ saved.handled[i].log \in FailureLines
         /\ ("NameOfWorkcell" \in comps[saved.batch[i].root] /\ saved.io[i] = "ok") =>
                saved.handled[i].written # <<>>
    /\ saved.batch # <<>> => save_events = <<>>

----------------------------------------------------------------------------
(* Properties of change_workcell. *)

\* The step in which change_workcell reads a batch of events.
ChangeStep == change_events # <<>> /\ change_events' = <<>>

\* C8 (as amended): change_workcell looks at the last event of the batch
\* only. If its root is an open workcell, CurrentWorkspace becomes that root
\* with display = true; if not, an error is logged for it and
\* CurrentWorkspace is unchanged, whatever the earlier events ask for. The
\* earlier events are dropped without a log line. CurrentWorkspace.root is
\* never set to an entity that is not an open workcell.
C8_LastEventDecides ==
    [][ /\ ChangeStep =>
             LET last == change_events[Len(change_events)]
             IN  IF "NameOfWorkcell" \in comps[last.root]
                 THEN /\ current_workspace' = [root |-> last.root, display |-> TRUE]
                      /\ changed'.errors = {}
                 ELSE /\ current_workspace' = current_workspace
                      /\ changed'.errors = {last.root}
        /\ current_workspace'.root # current_workspace.root =>
             "NameOfWorkcell" \in comps'[current_workspace'.root] ]_vars

\* C8 as stated: every event whose root is not an open workcell is logged,
\* and CurrentWorkspace follows the last event of the batch whose root is an
\* open workcell, or is unchanged when there is none.
C8_LastOpenWorkcellWins ==
    [][ ChangeStep =>
          LET open == { i \in DOMAIN change_events :
                          "NameOfWorkcell" \in comps[change_events[i].root] }
              top == CHOOSE i \in open : \A j \in open : j <= i
          IN  /\ changed'.errors =
                    { change_events[i].root : i \in DOMAIN change_events \ open }
              /\ IF open # {}
                 THEN current_workspace' =
                          [root |-> change_events[top].root, display |-> TRUE]
                 ELSE current_workspace' = current_workspace ]_vars

\* A batch whose first event names an open workcell and whose last does not:
\* the error is logged for the last and the workspace did not move to the
\* first.
C8_Witness ==
    /\ Len(changed.batch) >= 2
    /\ "NameOfWorkcell" \in comps[changed.batch[1].root]
    /\ "NameOfWorkcell" \notin comps[changed.batch[Len(changed.batch)].root]
    /\ changed.errors = {changed.batch[Len(changed.batch)].root}
    /\ current_workspace.root # changed.batch[1].root

----------------------------------------------------------------------------
(* Properties of the placement entry points. *)

\* C4 (as amended): place_object_3d, called directly or by the deferred
\* ObjectPlaceCommand, spawns no request entity, sends no RunSelector event
\* and logs a warning when CurrentWorkspace.root is None. replace_parent_3d
\* takes the workspace as an argument and does not look at CurrentWorkspace:
\* it spawns its request and sends its event without a warning whether a
\* workspace is active or not.
C4_PlaceObjectNeedsWorkspace ==
    [][ /\ ( /\ last_call' \in {"place_object_3d", "ObjectPlaceCommand"}
             /\ current_workspace.root = NoEntity ) =>
                /\ requests' = requests
                /\ run_selector' = run_selector
                /\ warned'
        /\ last_call' = "replace_parent_3d" =>
                /\ Len(requests') = Len(requests) + 1
                /\ requests'[Len(requests')].input = "ReplaceParent3d"
                /\ Len(run_selector') = Len(run_selector) + 1
                /\ ~warned' ]_vars

\* C4 as stated: none of the three entry points spawns or sends anything,
\* and each logs a warning, while no workspace is active.
C4_NoWorkspaceNoPlacement ==
    [][ ( /\ last_call' \in {"place_object_3d", "replace_parent_3d",
                             "ObjectPlaceCommand"}
          /\ current_workspace.root = NoEntity ) =>
             /\ requests' = requests
             /\ run_selector' = run_selector
             /\ warned' ]_vars

\* place_object_3d was called without a workspace and only warned, while the
\* request of a replace_parent_3d made without a workspace is in flight.
C4_Witness ==
    /\ current_workspace.root = NoEntity
    /\ last_call \in {"place_object_3d", "ObjectPlaceCommand"}
    /\ warned
    /\ Len(requests) = 1
    /\ requests[1].input = "ReplaceParent3d"
    /\ Len(run_selector) = 1

====
